---- MODULE Spec2Model ----
(***************************************************************************)
(* Model of streamlit_app.py (bias map).  Every browser session runs the   *)
(* whole script top to bottom on each UI event, in its own thread; the     *)
(* sessions share the process-wide countries_json, the classifier and the  *)
(* cache of the memoized function predict.                                 *)
(*                                                                         *)
(* A string is the sequence of its pieces: each placeholder character is a *)
(* piece of its own and each maximal run of other characters is one piece, *)
(* so "A * and another *" is <<"A ", "*", " and another ", "*">>; `in` and *)
(* replace act on the placeholder pieces as they act on the characters.    *)
(* Probabilities are fixed-point numbers in tenths: the float 0.9 is 9 and *)
(* the literal 1 of `1 - result["score"]` is One.                          *)
(***************************************************************************)
EXTENDS Integers, Sequences, FiniteSets, TLC

\* ------------------------------------------------------------------ bounds
\* Number of browser sessions (script threads) of the one process.
NumSessions == 2
\* Most distinct sentences the classifier is given in a behaviour.
MaxSentences == 2
\* Most classifier calls that raise in a behaviour.
MaxFailures == 1

\* --------------------------------------------------------------- literals
Placeholder == "*"

\* The literal 1 of `1 - result["score"]`, in tenths.
One == 10

DefaultText == <<"This movie was filmed in ", "*">>
BookText == <<"The book is written in ", "*">>
PartnerText == <<"My partner is from ", "*">>
CandidateText == <<"Our next candidate is from ", "*">>

\* ----------------------------------------------------------------- inputs
Sessions == 1..NumSessions

ChadTemplate == <<"A ", "*", " and another ", "*">>

\* What a user may have in the text box: nothing, a text without placeholder,
\* the widget's default value, a text with two placeholders.
TypedTexts == {<<>>, <<"a">>, DefaultText, ChadTemplate}

\* Which example button triggered the run; a button is True only in the run
\* its click triggers, so at most one of them is set in a run.
Buttons == {"none", "book", "partner", "candidate"}

France == <<"France">>
Japan == <<"Japan">>
Chad == <<"Chad">>

\* properties.ADMIN of the features of countries.geojson, in file order; the
\* names are distinct and none holds the placeholder.
Features == <<France, Japan>>

\* The catalogs: the file cut after any number of features.
Catalogs == {SubSeq(Features, 1, n) : n \in 0..Len(Features)}

\* The catalogs of a behaviour with several sessions.
SharedCatalogs == Catalogs \ {<<>>}

\* The inputs of a behaviour with one session: any text, any button.
AllInputs == TypedTexts \X Buttons

\* The inputs of a behaviour with several sessions: the text box is left at
\* its default or emptied, and the first example button may be clicked.
SharedInputs ==
    {<<DefaultText, "none">>, <<DefaultText, "book">>, <<<<>>, "none">>}

\* The classifier's output per sentence: {"label": ..., "score": ...}.  The
\* code puts no constraint on the label it is handed.
Results ==
    {[label |-> "POSITIVE", score |-> 9],
     [label |-> "NEGATIVE", score |-> 7],
     [label |-> "NEUTRAL", score |-> 7]}

\* ------------------------------------------------------- pure functions
\* "*" in text_input
Contains(s, c) == \E i \in DOMAIN s : s[i] = c

\* A replace that stops after the first occurrence.
ReplaceFirst(s, old, new) ==
    IF \E i \in DOMAIN s : s[i] = old
    THEN LET k == CHOOSE i \in DOMAIN s :
                    s[i] = old /\ \A j \in 1..(i - 1) : s[j] # old
         IN  SubSeq(s, 1, k - 1) \o new \o SubSeq(s, k + 1, Len(s))
    ELSE s

\* str.replace(old, new) for the one-character old: every occurrence, left
\* to right, the inserted text is not scanned again.
RECURSIVE Replace(_, _, _)
Replace(s, old, new) ==
    IF s = <<>> THEN <<>>
    ELSE IF Head(s) = old THEN new \o Replace(Tail(s), old, new)
    ELSE <<Head(s)>> \o Replace(Tail(s), old, new)

\* A normalisation that forgets the label.
ScoreWhateverLabel(result) == result.score

\* result_to_positive_class_probability
result_to_positive_class_probability(result) ==
    IF result.label = "POSITIVE" THEN result.score ELSE One - result.score

\* Overrides that never take effect.
TypedTextOnly(typed_text, book, partner, candidate) == typed_text

\* The three `if book / if partner / if candidate` overrides, in order.
EffectiveTemplate(typed_text, book, partner, candidate) ==
    LET t1 == IF book THEN BookText ELSE typed_text
        t2 == IF partner THEN PartnerText ELSE t1
    IN  IF candidate THEN CandidateText ELSE t2

\* The expansion loop: one review per feature, in feature order.
Expand(template, features) ==
    [i \in DOMAIN features |-> Replace(template, Placeholder, features[i])]

\* country_names of the expansion loop.
CountryNamesOf(features) == [i \in DOMAIN features |-> features[i]]

\* A frame whose probabilities come in the opposite order to the names.
DataFrameReversed(country_names, res) ==
    [i \in DOMAIN country_names |->
        [Country |-> country_names[i],
         proba |-> result_to_positive_class_probability(res[Len(res) + 1 - i])]]

\* pd.DataFrame({"Country": country_names, "Positive class probability": probas})
DataFrame(country_names, res) ==
    [i \in DOMAIN country_names |->
        [Country |-> country_names[i],
         proba |-> result_to_positive_class_probability(res[i])]]

IsAscending(df) ==
    \A i, j \in DOMAIN df : i < j => df[i].proba <= df[j].proba

\* The frames sort_values(by=..., ascending=True) may return: the rows of df
\* permuted into ascending order (the default sort is not stable, so rows of
\* equal probability come in either order).
SortedFrames(df) ==
    {[i \in DOMAIN df |-> df[p[i]]] :
        p \in {q \in [DOMAIN df -> DOMAIN df] :
                 /\ \A i, j \in DOMAIN df : q[i] = q[j] => i = j
                 /\ IsAscending([i \in DOMAIN df |-> df[q[i]]])}}

ValidTemplates ==
    {t \in TypedTexts \cup {BookText, PartnerText, CandidateText} :
        Contains(t, Placeholder)}

RECURSIVE SumOver(_, _)
SumOver(f, S) ==
    IF S = {} THEN 0
    ELSE LET x == CHOOSE y \in S : TRUE IN f[x] + SumOver(f, S \ {x})

\* ------------------------------------------------------------------ state
VARIABLES
    users,           \* the sessions that use the app in this behaviour
    inputs,          \* the <<text, button>> events those sessions produce
    countries_json,  \* the catalog, loaded once: sequence of ADMIN names
    classifier,      \* the singleton pipeline: sentence -> result, fixed the
                     \* first time a sentence is classified
    memo,            \* cache of predict: reviews -> results
    pc,              \* where each session's script run is
    typed,           \* the text box's value per session
    pressed,         \* the button that triggered the session's run
    text_input,      \* the script's text_input after the overrides
    reviews,         \* the script's reviews
    results,         \* the script's results
    countries_df,    \* the script's countries_df
    shown,           \* the frame handed to st.dataframe
    calls,           \* history: classifier invocations of the current run
    batch,           \* history: argument of the run's classifier invocation
    invocations,     \* history: classifier invocations per template
    failures         \* history: classifier calls that raised

vars == <<users, inputs, countries_json, classifier, memo, pc, typed, pressed,
          text_input, reviews, results, countries_df, shown, calls, batch, invocations,
          failures>>

Ended == {"idle", "AssertionError", "OracleError", "done"}

TotalInvocations == SumOver(invocations, ValidTemplates)

InitWith(U, I, C) ==
    /\ users = U
    /\ inputs = I
    /\ countries_json \in C
    /\ classifier = <<>>
    /\ memo = <<>>
    /\ pc = [r \in Sessions |-> "idle"]
    /\ typed = [r \in Sessions |-> DefaultText]
    /\ pressed = [r \in Sessions |-> "none"]
    /\ text_input = [r \in Sessions |-> DefaultText]
    /\ reviews = [r \in Sessions |-> <<>>]
    /\ results = [r \in Sessions |-> <<>>]
    /\ countries_df = [r \in Sessions |-> <<>>]
    /\ shown = [r \in Sessions |-> <<>>]
    /\ calls = [r \in Sessions |-> 0]
    /\ batch = [r \in Sessions |-> <<>>]
    /\ invocations = [t \in ValidTemplates |-> 0]
    /\ failures = 0

\* ---------------------------------------------------------------- actions
\* A UI event reruns the script of session r from the top, with the text box
\* holding t and button b clicked (lines 85-102).
Rerun(r, t, b) ==
    /\ pc[r] \in Ended
    /\ typed' = [typed EXCEPT ![r] = t]
    /\ pressed' = [pressed EXCEPT ![r] = b]
    /\ text_input' = [text_input EXCEPT ![r] =
            EffectiveTemplate(t, b = "book", b = "partner", b = "candidate")]
    /\ results' = [results EXCEPT ![r] = <<>>]
    /\ countries_df' = [countries_df EXCEPT ![r] = <<>>]
    /\ shown' = [shown EXCEPT ![r] = <<>>]
    /\ calls' = [calls EXCEPT ![r] = 0]
    /\ batch' = [batch EXCEPT ![r] = <<>>]
    /\ UNCHANGED <<users, inputs, countries_json, classifier, memo, invocations,
                   failures>>

\* An assert that is compiled away.
AssertSkipped(template) == TRUE

\* assert "*" in text_input
AssertHolds(template) == Contains(template, Placeholder)

\* The run stops at the assert of line 104.
RunRejected(r) ==
    \E in \in inputs :
        /\ Rerun(r, in[1], in[2])
        /\ ~AssertHolds(text_input'[r])
        /\ reviews' = [reviews EXCEPT ![r] = <<>>]
        /\ pc' = [pc EXCEPT ![r] = "AssertionError"]

\* The run passes the assert and `if text_input:` and builds reviews and
\* country_names (lines 104-116); it is about to call predict(reviews).
RunExpand(r) ==
    \E in \in inputs :
        /\ Rerun(r, in[1], in[2])
        /\ AssertHolds(text_input'[r])
        /\ text_input'[r] # <<>>
        /\ reviews' = [reviews EXCEPT ![r] = Expand(text_input'[r], countries_json)]
        /\ pc' = [pc EXCEPT ![r] = "predict"]

\* predict(reviews) finds the key in the memo cache (lines 68-70, 118), then
\* the script builds probas and countries_df (lines 119-123).
MemoHit(r) ==
    /\ pc[r] = "predict"
    /\ reviews[r] \in DOMAIN memo
    /\ results' = [results EXCEPT ![r] = memo[reviews[r]]]
    /\ countries_df' = [countries_df EXCEPT ![r] =
            DataFrame(CountryNamesOf(countries_json), memo[reviews[r]])]
    /\ pc' = [pc EXCEPT ![r] = "sort"]
    /\ UNCHANGED <<users, inputs, countries_json, classifier, memo, typed, pressed,
                   text_input,
                   reviews, shown, calls, batch, invocations, failures>>

\* predict(reviews) misses the memo cache and goes on to run its body.
MemoMiss(r) ==
    /\ pc[r] = "predict"
    /\ reviews[r] \notin DOMAIN memo
    /\ pc' = [pc EXCEPT ![r] = "classifier"]
    /\ UNCHANGED <<users, inputs, countries_json, classifier, memo, typed, pressed,
                   text_input,
                   reviews, results, countries_df, shown, calls, batch,
                   invocations, failures>>

\* A cache that drops what it is given.
MemoWriteDropped(cache, key, res) == cache

\* What the memo cache holds after the body of predict returned res for key.
MemoWrite(cache, key, res) ==
    [k \in DOMAIN cache \cup {key} |-> IF k = key THEN res ELSE cache[k]]

\* History of the call classifier(reviews) that session r makes.
CountCall(r) ==
    /\ calls' = [calls EXCEPT ![r] = @ + 1]
    /\ batch' = [batch EXCEPT ![r] = reviews[r]]
    /\ invocations' = [invocations EXCEPT ![text_input[r]] = @ + 1]

\* classifier(reviews) returns one result per review, the same result for a
\* sentence it has classified before; the memo decorator stores the list
\* under the key as predict returns; the script builds probas and
\* countries_df.
ClassifierReturns(r) ==
    /\ pc[r] = "classifier"
    /\ Cardinality(DOMAIN classifier \cup {reviews[r][i] : i \in DOMAIN reviews[r]})
            <= MaxSentences
    /\ CountCall(r)
    /\ LET unseen == {reviews[r][i] : i \in DOMAIN reviews[r]} \ DOMAIN classifier
       IN  \E f \in [unseen -> Results] :
            /\ classifier' = f @@ classifier
            /\ LET res == [i \in DOMAIN reviews[r] |-> classifier'[reviews[r][i]]]
               IN  /\ results' = [results EXCEPT ![r] = res]
                   /\ memo' = MemoWrite(memo, reviews[r], res)
                   /\ countries_df' = [countries_df EXCEPT ![r] =
                        DataFrame(CountryNamesOf(countries_json), res)]
    /\ pc' = [pc EXCEPT ![r] = "sort"]
    /\ UNCHANGED <<users, inputs, countries_json, typed, pressed, text_input,
                   reviews, shown, failures>>

\* The failure is stored under the key as an empty list.
ClassifierRaisesCached(r) ==
    /\ pc[r] = "classifier"
    /\ failures < MaxFailures
    /\ failures' = failures + 1
    /\ CountCall(r)
    /\ memo' = MemoWrite(memo, reviews[r], <<>>)
    /\ pc' = [pc EXCEPT ![r] = "OracleError"]
    /\ UNCHANGED <<users, inputs, countries_json, classifier, typed, pressed,
                   text_input, reviews, results, countries_df, shown>>

\* The failure is swallowed and the classifier is called again.
ClassifierRaisesRetried(r) ==
    /\ pc[r] = "classifier"
    /\ failures < MaxFailures
    /\ failures' = failures + 1
    /\ CountCall(r)
    /\ UNCHANGED <<users, inputs, countries_json, classifier, memo, pc, typed,
                   pressed, text_input, reviews, results, countries_df, shown>>

\* classifier(reviews) raises: the exception leaves predict before the memo
\* decorator stores anything and ends the script run.
ClassifierRaises(r) ==
    /\ pc[r] = "classifier"
    /\ failures < MaxFailures
    /\ failures' = failures + 1
    /\ CountCall(r)
    /\ pc' = [pc EXCEPT ![r] = "OracleError"]
    /\ UNCHANGED <<users, inputs, countries_json, classifier, memo, typed, pressed,
                   text_input,
                   reviews, results, countries_df, shown>>

\* sort_values(..., inplace=True): countries_df itself is reordered.
SortValuesInplace(r) ==
    /\ pc[r] = "sort"
    /\ \E s \in SortedFrames(countries_df[r]) :
        /\ shown' = [shown EXCEPT ![r] = s]
        /\ countries_df' = [countries_df EXCEPT ![r] = s]
    /\ pc' = [pc EXCEPT ![r] = "done"]
    /\ UNCHANGED <<users, inputs, countries_json, classifier, memo, typed, pressed,
                   text_input, reviews, results, calls, batch, invocations, failures>>

\* st.dataframe(countries_df.sort_values(...)): sort_values returns a new
\* frame and leaves countries_df alone (lines 138-139).
SortValues(r) ==
    /\ pc[r] = "sort"
    /\ \E s \in SortedFrames(countries_df[r]) : shown' = [shown EXCEPT ![r] = s]
    /\ pc' = [pc EXCEPT ![r] = "done"]
    /\ UNCHANGED <<users, inputs, countries_json, classifier, memo, typed, pressed,
                   text_input,
                   reviews, results, countries_df, calls, batch, invocations, failures>>

Next ==
    \/ \E r \in users : RunRejected(r)
    \/ \E r \in users : RunExpand(r)
    \/ \E r \in users : MemoHit(r)
    \/ \E r \in users : MemoMiss(r)
    \/ \E r \in users : ClassifierReturns(r)
    \/ \E r \in users : ClassifierRaises(r)
    \/ \E r \in users : SortValues(r)

\* One session, every input.
Init == InitWith({1}, AllInputs, Catalogs)
Spec == Init /\ [][Next]_vars

\* Every session at once, on the shared inputs.
InitShared == InitWith(Sessions, SharedInputs, SharedCatalogs)
SpecShared == InitShared /\ [][Next]_vars

\* ------------------------------------------------------------- properties
\* The run of session r has built its reviews.
Expanded(r) == pc[r] \in {"predict", "classifier", "sort", "done", "OracleError"}

\* The run of session r has its results and its countries_df.
Scored(r) == pc[r] \in {"sort", "done"}

Count(s, c) == Cardinality({i \in DOMAIN s : s[i] = c})

\* Where the text standing for template position j starts in the expansion
\* of template by a name of length n (0-based).
Offset(template, n, j) ==
    (j - 1) + Count(SubSeq(template, 1, j - 1), Placeholder) * (n - 1)

\* text is template with every placeholder replaced by name, and nothing else
\* changed.
FullySubstituted(text, template, name) ==
    /\ Len(text) = Len(template) + Count(template, Placeholder) * (Len(name) - 1)
    /\ \A j \in DOMAIN template :
        LET off == Offset(template, Len(name), j)
        IN  IF template[j] = Placeholder
            THEN SubSeq(text, off + 1, off + Len(name)) = name
            ELSE text[off + 1] = template[j]

ChadExpanded == <<"A ", "Chad", " and another ", "Chad">>

\* C1: a run whose template holds no "*" (the empty template included) ends
\* at the failed assert, and the classifier is not called in that run: it has
\* no invocation, no batch, no results and no frame.
C1_RejectedBeforeOracle ==
    \A r \in users :
        (pc[r] # "idle" /\ ~Contains(text_input[r], Placeholder)) =>
            /\ pc[r] = "AssertionError"
            /\ calls[r] = 0
            /\ batch[r] = <<>>
            /\ results[r] = <<>>
            /\ countries_df[r] = <<>>

\* C1 witness: the empty template was rejected after the classifier had
\* already been used by an earlier run.
C1_Witness ==
    /\ pc[1] = "AssertionError"
    /\ text_input[1] = <<>>
    /\ TotalInvocations > 0

\* C2: in every frame built, a POSITIVE result of confidence c gives the
\* probability c and a NEGATIVE one gives 1-c, for the results the runs see
\* and for every confidence between 0 and 1; France POSITIVE 0.9 and Japan
\* NEGATIVE 0.7 give 0.9 and 0.3.
C2_Normalization ==
    /\ \A r \in users : Scored(r) =>
        \A i \in DOMAIN results[r] :
            /\ results[r][i].label = "POSITIVE" =>
                countries_df[r][i].proba = results[r][i].score
            /\ results[r][i].label = "NEGATIVE" =>
                countries_df[r][i].proba = One - results[r][i].score
    /\ \A r \in users :
        (/\ Scored(r)
         /\ countries_json = <<France, Japan>>
         /\ results[r] = <<[label |-> "POSITIVE", score |-> 9],
                           [label |-> "NEGATIVE", score |-> 7]>>) =>
            countries_df[r] = <<[Country |-> France, proba |-> 9],
                                [Country |-> Japan, proba |-> 3]>>
    /\ \A c \in 0..One :
        /\ result_to_positive_class_probability(
                [label |-> "POSITIVE", score |-> c]) = c
        /\ result_to_positive_class_probability(
                [label |-> "NEGATIVE", score |-> c]) = One - c

\* C2 witness: the end-to-end scenario has run to its end.
C2_Witness ==
    /\ pc[1] = "done"
    /\ text_input[1] = DefaultText
    /\ countries_json = <<France, Japan>>
    /\ results[1] = <<[label |-> "POSITIVE", score |-> 9],
                      [label |-> "NEGATIVE", score |-> 7]>>

\* C3: a run over a catalog of N regions builds N reviews, the i-th from the
\* i-th region, gets N results, the i-th being the classifier's answer to the
\* i-th review, and builds N rows, the i-th pairing the i-th region's name
\* with the probability of the i-th result.
C3_OrderPreserved ==
    \A r \in users :
        /\ Expanded(r) =>
            /\ Len(reviews[r]) = Len(countries_json)
            /\ \A i \in DOMAIN countries_json :
                reviews[r][i] = Replace(text_input[r], Placeholder, countries_json[i])
        /\ Scored(r) =>
            /\ Len(results[r]) = Len(countries_json)
            /\ Len(countries_df[r]) = Len(countries_json)
            /\ \A i \in DOMAIN countries_json :
                /\ results[r][i] = classifier[reviews[r][i]]
                /\ countries_df[r][i].Country = countries_json[i]
                /\ countries_df[r][i].proba =
                        result_to_positive_class_probability(results[r][i])

\* C3 witness: a finished run over two regions whose probabilities differ.
C3_Witness ==
    /\ pc[1] = "done"
    /\ Len(countries_json) = 2
    /\ countries_df[1][1].proba # countries_df[1][2].proba

\* C4 as stated: the classifier is invoked at most once per template, and
\* runs with the same template have the same frame.
C4_AtMostOncePerTemplate ==
    /\ \A t \in ValidTemplates : invocations[t] <= 1
    /\ \A r1, r2 \in users :
        (Scored(r1) /\ Scored(r2) /\ text_input[r1] = text_input[r2]) =>
            countries_df[r1] = countries_df[r2]

\* A run that finds its key in the cache takes the stored results and does
\* not invoke the classifier.
HitReturnsStored ==
    \A r \in users :
        (pc[r] = "predict" /\ pc'[r] # "predict" /\ reviews[r] \in DOMAIN memo) =>
            /\ invocations' = invocations
            /\ calls'[r] = 0
            /\ results'[r] = memo[reviews[r]]

\* What is stored stays stored, unchanged.
MemoKept ==
    \A k \in DOMAIN memo : k \in DOMAIN memo' /\ memo'[k] = memo[k]

\* C4, amended: once a classifier call has returned, its results are stored
\* under the run's reviews and stay there unchanged; every run that looks the
\* key up afterwards takes the stored results without invoking the
\* classifier; all runs with the same template have the same frame.
C4_StoredThenReused ==
    /\ [](\A r \in users : Scored(r) =>
            reviews[r] \in DOMAIN memo /\ memo[reviews[r]] = results[r])
    /\ [](\A r1, r2 \in users :
            (Scored(r1) /\ Scored(r2) /\ text_input[r1] = text_input[r2]) =>
                countries_df[r1] = countries_df[r2])
    /\ [][HitReturnsStored /\ MemoKept]_vars

\* C4 witness: session 1 computed the results of a template over two regions
\* and session 2, with the same template, took them from the cache.
C4_Witness ==
    /\ pc[1] = "done" /\ calls[1] = 1
    /\ pc[2] = "done" /\ calls[2] = 0
    /\ text_input[1] = text_input[2]
    /\ Len(countries_json) = 2

\* C5 as stated: when the classifier returns a label that is neither POSITIVE
\* nor NEGATIVE, the run builds no frame and nothing is stored in the cache.
C5_UnknownLabelRejected ==
    /\ \A r \in users : Scored(r) =>
        \A i \in DOMAIN results[r] :
            results[r][i].label \in {"POSITIVE", "NEGATIVE"}
    /\ \A k \in DOMAIN memo : \A i \in DOMAIN memo[k] :
        memo[k][i].label \in {"POSITIVE", "NEGATIVE"}

\* The step of session r in which classifier(reviews) raises.
Raises(r) == pc[r] = "classifier" /\ pc'[r] = "OracleError"

\* C6: a classifier call that raises stores nothing and leaves the run with
\* no results and no frame; while the failed run stands, the key is not in the
\* cache, every entry of the cache is a full list of results, and the next
\* run of the same template misses the cache again, so that it goes on to
\* invoke the classifier.
C6_FailureNotCached ==
    /\ [](\A r \in users : pc[r] = "OracleError" =>
            /\ reviews[r] \notin DOMAIN memo
            /\ results[r] = <<>>
            /\ countries_df[r] = <<>>
            /\ shown[r] = <<>>)
    /\ [](\A k \in DOMAIN memo :
            Len(memo[k]) = Len(k) /\ \A i \in DOMAIN k : memo[k][i] \in Results)
    /\ [][\A r \in users :
            /\ Raises(r) => memo' = memo
            /\ (pc[r] = "OracleError" /\ pc'[r] = "predict"
                    /\ text_input'[r] = text_input[r]) =>
                    reviews'[r] \notin DOMAIN memo'
            /\ (pc[r] = "predict" /\ pc'[r] # "predict"
                    /\ reviews[r] \notin DOMAIN memo) =>
                    pc'[r] = "classifier"]_vars

\* C6 witness: the classifier failed on a template, and the next run of the
\* same template is invoking it again.
C6_Witness ==
    /\ pc[1] = "classifier"
    /\ invocations[text_input[1]] = 1
    /\ reviews[1] \notin DOMAIN memo
    /\ Len(countries_json) = 2

\* C7: every review is its template with every placeholder replaced by the
\* region name, so it holds no placeholder; a template with two placeholders
\* is accepted; "A * and another *" with Chad gives "A Chad and another Chad".
C7_AllOccurrencesReplaced ==
    /\ \A r \in users : Expanded(r) =>
        \A i \in DOMAIN reviews[r] :
            /\ FullySubstituted(reviews[r][i], text_input[r], countries_json[i])
            /\ ~Contains(reviews[r][i], Placeholder)
    /\ \A r \in users :
        (pc[r] # "idle" /\ Count(text_input[r], Placeholder) >= 2) =>
            pc[r] # "AssertionError"
    /\ Replace(ChadTemplate, Placeholder, Chad) = ChadExpanded

\* C7 witness: a template with two placeholders was expanded over two regions
\* and its run has finished.
C7_Witness ==
    /\ pc[1] = "done"
    /\ Count(text_input[1], Placeholder) = 2
    /\ Len(reviews[1]) = 2

\* The step of session r that sorts the frame for the listing.
Sorts(r) == pc[r] = "sort" /\ pc'[r] = "done"

\* C8: the sort for the listing yields an ascending frame and changes neither
\* countries_df nor the cache nor the run's results; before and after it,
\* countries_df and the cached results are in catalog order, for a first run
\* and for every later run of the template.
C8_SortLeavesFrames ==
    /\ [][\A r \in users : Sorts(r) =>
            /\ countries_df'[r] = countries_df[r]
            /\ results'[r] = results[r]
            /\ memo' = memo
            /\ IsAscending(shown'[r])]_vars
    /\ [](\A r \in users : Scored(r) =>
            /\ \A i \in DOMAIN countries_json :
                countries_df[r][i].Country = countries_json[i]
            /\ memo[reviews[r]] =
                [i \in DOMAIN reviews[r] |-> classifier[reviews[r][i]]])

\* C8 witness: a later run of a template took its results from the cache and
\* its listing is in another order than its countries_df.
C8_Witness ==
    /\ pc[1] = "done"
    /\ calls[1] = 0
    /\ invocations[text_input[1]] = 1
    /\ shown[1] # countries_df[1]

\* C9: a run invokes the classifier at most once, and then with all its
\* reviews, one per region, as one batch.
C9_SingleBatchedCall ==
    \A r \in users :
        /\ calls[r] <= 1
        /\ calls[r] = 1 =>
            /\ batch[r] = reviews[r]
            /\ Len(batch[r]) = Len(countries_json)
        /\ Scored(r) => Len(results[r]) = Len(countries_json)

\* C9 witness: a run over two regions has finished with one invocation.
C9_Witness ==
    /\ pc[1] = "done"
    /\ calls[1] = 1
    /\ Len(batch[1]) = 2

\* C10: in a run triggered by an example button the template is that
\* button's sentence whatever the text box holds, and the run passes the
\* assert; with no button it is the typed text; the reviews are built from
\* that template; were several buttons set, candidate would win over partner
\* and partner over book.
C10_ButtonOverridesText ==
    /\ \A r \in users : pc[r] # "idle" =>
        /\ pressed[r] = "book" => text_input[r] = BookText
        /\ pressed[r] = "partner" => text_input[r] = PartnerText
        /\ pressed[r] = "candidate" => text_input[r] = CandidateText
        /\ pressed[r] = "none" => text_input[r] = typed[r]
        /\ pressed[r] # "none" => pc[r] # "AssertionError"
        /\ Expanded(r) => reviews[r] = Expand(text_input[r], countries_json)
    /\ \A t \in TypedTexts, bk \in BOOLEAN, pa \in BOOLEAN, ca \in BOOLEAN :
        EffectiveTemplate(t, bk, pa, ca) =
            IF ca THEN CandidateText
            ELSE IF pa THEN PartnerText
            ELSE IF bk THEN BookText
            ELSE t

\* C10 witness: the partner button was clicked over a text box without a
\* placeholder, and the run has finished.
C10_Witness ==
    /\ pc[1] = "done"
    /\ pressed[1] = "partner"
    /\ typed[1] = <<"a">>
    /\ Len(countries_json) = 2
====
